---- MODULE Spec2Model ----
(***************************************************************************)
(* Blockchain anchoring subsystem of the contract backend                  *)
(* (backend/app/api/blockchain.py, backend/app/models/blockchain.py).      *)
(*                                                                         *)
(* Two specifications:                                                     *)
(*   SpecMerkle  the pure Merkle helpers applied to bounded inputs;        *)
(*   Spec        the request handlers, split at their await points, over   *)
(*               the blockchain_records and certificates tables, with the  *)
(*               ledger collaborator as environment.                       *)
(***************************************************************************)
EXTENDS Integers, Sequences, FiniteSets, Bags, TLC

\* ------------------------------------------------------------------ bounds
NumHashes == 2
MaxLeaves == 5
NumContracts == 1     \* contracts 1..NumContracts exist
NumProcs == 2         \* requests that can be in flight at once
MaxRecords == 2       \* rows of blockchain_records
MaxBatchLen == 2      \* longest hash list handed to batch_anchor_documents
MaxYear == 2          \* calendar years the clock passes through
NumDids == 2          \* DIDs handed to the mock DID client
MaxCredentials == 2   \* credentials the mock DID client issues

\* ------------------------------------------------------- program constants
MinBatchSize == 2
MaxBatchSize == 100
PlaceholderConfirmations == 12

\* --------------------------------------------------------------- variables
VARIABLES
    m_pc,        \* position of the Merkle driver: "input", "built", "proved",
                 \* "verified", or "tampered", "tamper_checked"
    m_hashes,    \* the list handed to compute_merkle_root
    m_root,      \* root returned by compute_merkle_root
    m_tree,      \* tree (list of levels) returned by compute_merkle_root
    m_leaf,      \* the hash_value handed to get_merkle_proof
    m_proof,     \* proof returned by get_merkle_proof
    m_ok,        \* outcome of recomputing the root from (m_leaf, m_proof)
    m_tamper     \* what was replaced before verification: "none", "leaf", "sibling", "root"

mvars == <<m_pc, m_hashes, m_root, m_tree, m_leaf, m_proof, m_ok, m_tamper>>

VARIABLES
    records,       \* table blockchain_records; a record's id is its position
    certificates,  \* table certificates; a certificate's id is its position
    inflight,      \* bag of the requests suspended at an await, with their locals
    resp,          \* the response that is about to leave, with its request
    task,          \* the background task of the request answered last
    year           \* datetime.utcnow().year

avars == <<records, certificates, inflight, resp, task, year>>

VARIABLES
    d_credentials, \* MockDidBaasClient._mock_credentials: credential_id -> credential
    d_returned,    \* the credentials issue_w3c_credential has returned so far
    d_out          \* outcome of the last call on the client

dvars == <<d_credentials, d_returned, d_out>>

vars == <<mvars, avars, dvars>>

\* ------------------------------------------------------------ hash strings
\* A hex digest / document hash is a natural number; "" is 0.
EmptyString == 0
HashValues == 1..NumHashes

Range(s) == {s[i] : i \in 1..Len(s)}

RECURSIVE SeqsOfLen(_, _)
SeqsOfLen(S, n) ==
    IF n = 0 THEN {<<>>}
    ELSE {Append(s, x) : s \in SeqsOfLen(S, n - 1), x \in S}

\* hashlib.sha256((l + r).encode()).hexdigest(): the concatenation of two
\* digests followed by SHA-256, modelled as an injective, non-commutative
\* pairing (Cantor).
Sha256Concat_IgnoresLeft(l, r) == r

Sha256Concat(l, r) == ((l + r) * (l + r + 1)) \div 2 + r

\* ------------------------------------------------------ compute_merkle_root
PadOdd_NoPadding(hs) == hs

PadOdd(hs) == IF Len(hs) % 2 = 1 THEN Append(hs, hs[Len(hs)]) ELSE hs

PairUp_Swapped(hs) == [i \in 1..(Len(hs) \div 2) |-> Sha256Concat(hs[2 * i], hs[2 * i - 1])]

PairUp(hs) == [i \in 1..(Len(hs) \div 2) |-> Sha256Concat(hs[2 * i - 1], hs[2 * i])]

PadNextLevel_NoPadding(nl) == nl

PadNextLevel(nl) == IF Len(nl) > 1 /\ Len(nl) % 2 = 1 THEN Append(nl, nl[Len(nl)]) ELSE nl

RECURSIVE MerkleLoop(_)
MerkleLoop(hs) ==
    IF Len(hs) > 1
    THEN LET next_level == PadNextLevel(PairUp(hs))
         IN  <<next_level>> \o MerkleLoop(next_level)
    ELSE <<>>

compute_merkle_root(hashes) ==
    IF hashes = <<>>
    THEN [root |-> EmptyString, tree |-> <<>>]
    ELSE LET padded == PadOdd(hashes)
             tree   == <<padded>> \o MerkleLoop(padded)
         IN  [root |-> tree[Len(tree)][1], tree |-> tree]

\* --------------------------------------------------------- get_merkle_proof
\* list.index: 0-based position of the first occurrence
ListIndex(level, v) == (CHOOSE i \in 1..Len(level) :
                            level[i] = v /\ \A j \in 1..(i - 1) : level[j] # v) - 1

RECURSIVE ProofLoop(_, _, _)
ProofLoop(tree, lvl, index) ==
    IF lvl > Len(tree) - 1
    THEN <<>>
    ELSE LET sibling_index == IF index % 2 = 0 THEN index + 1 ELSE index - 1
             position      == IF index % 2 = 0 THEN "right" ELSE "left"
             entry == IF sibling_index < Len(tree[lvl])
                      THEN <<[hash |-> tree[lvl][sibling_index + 1], position |-> position]>>
                      ELSE <<>>
         IN  entry \o ProofLoop(tree, lvl + 1, index \div 2)

get_merkle_proof(hash_value, tree) ==
    IF tree = <<>> \/ hash_value \notin Range(tree[1])
    THEN <<>>
    ELSE ProofLoop(tree, 1, ListIndex(tree[1], hash_value))

\* ------------------------------------------------------------ ProofVerifier
RECURSIVE Recompute(_, _)
Recompute(acc, proof) ==
    IF proof = <<>>
    THEN acc
    ELSE LET step == Head(proof)
         IN  Recompute(IF step.position = "right"
                       THEN Sha256Concat(acc, step.hash)
                       ELSE Sha256Concat(step.hash, acc),
                       Tail(proof))

VerifyProof(leaf, proof, claimed_root) == Recompute(leaf, proof) = claimed_root

\* ------------------------------------------------------------ the tables
Null == 0

\* AnchorStatus
PENDING == "pending"
QUEUED == "queued"
PROCESSING == "processing"
CONFIRMED == "confirmed"
FAILED == "failed"

\* contract c is owned by user c; the last user owns no contract
Contracts == 1..NumContracts
Users == 1..(NumContracts + 1)
ContractOwner(c) == c

\* BlockchainRecord(...) as the handlers construct it; columns they do not
\* set take the column default (None).
BlockchainRecord(contract_id, document_hash, salt, merkle_root, merkle_proof, batch_id, status) ==
    [contract_id   |-> contract_id,
     document_hash |-> document_hash,
     salt          |-> salt,
     merkle_root   |-> merkle_root,
     merkle_proof  |-> merkle_proof,
     batch_id      |-> batch_id,
     tx_hash       |-> Null,
     block_number  |-> Null,
     confirmed_at  |-> Null,
     status        |-> status,
     error_message |-> Null]

\* Certificate(...): certificate_number f"SC-{year}-{count + 1:06d}" is the
\* pair <<year, sequence>>.
Certificate(blockchain_record_id, certificate_number) ==
    [blockchain_record_id |-> blockchain_record_id,
     certificate_number   |-> certificate_number]

FlushRecords_Replaces(table, new) == [ok |-> TRUE, table |-> new]

\* db.add(...) of new blockchain_records followed by db.flush(): the INSERT
\* is refused as a whole when a row breaks contract_id NOT NULL.
FlushRecords(table, new) ==
    IF \E i \in 1..Len(new) : new[i].contract_id = Null
    THEN [ok |-> FALSE, table |-> table]
    ELSE [ok |-> TRUE, table |-> table \o new]

FlushCertificate_NumberNotUnique(table, cert) ==
    IF \E i \in 1..Len(table) : table[i].blockchain_record_id = cert.blockchain_record_id
    THEN [ok |-> FALSE, table |-> table]
    ELSE [ok |-> TRUE, table |-> Append(table, cert)]

\* db.add(certificate) followed by db.flush(): both unique columns are
\* enforced by the table.
FlushCertificate(table, cert) ==
    IF \E i \in 1..Len(table) :
           \/ table[i].blockchain_record_id = cert.blockchain_record_id
           \/ table[i].certificate_number = cert.certificate_number
    THEN [ok |-> FALSE, table |-> table]
    ELSE [ok |-> TRUE, table |-> Append(table, cert)]

CertificateOf_NeverLoaded(table, record_id) == Null

\* record.certificate (selectinload): id of the certificate of a record, or Null
CertificateOf(table, record_id) ==
    IF \E i \in 1..Len(table) : table[i].blockchain_record_id = record_id
    THEN CHOOSE i \in 1..Len(table) : table[i].blockchain_record_id = record_id
    ELSE Null

\* ---------------------------------------------------------------- requests
NoTask == [kind |-> "none", ref |-> Null, payload |-> Null]

\* a request: its inputs, the locals of its handler and its response
NewRequest ==
    [op |-> "none", pc |-> "new", user |-> Null,
     contract_id |-> Null, document_hash |-> Null, anchor_id |-> Null,
     hashes |-> <<>>,
     seen |-> "none",          \* status of the record the handler loaded
     existing |-> 0,           \* rows matched by the duplicate check
     cyear |-> Null, count |-> Null,
     added |-> <<>>,           \* objects handed to db.add by this request
     task |-> NoTask,          \* background_tasks.add_task(...)
     code |-> 0,               \* HTTP status of the response, 0 while in flight
     id |-> Null,              \* id in the response
     status |-> "none",        \* status in the response
     verified |-> FALSE,       \* verified in the response
     view |-> <<>>,            \* what a read-only query returns
     number |-> <<Null, Null>>,\* certificate_number in the response
     created |-> FALSE,        \* this request inserted a certificate
     seq |-> TRUE]             \* no other request ran during this one

NoResponse == NewRequest

\* A response that has not left yet and a background task that has not run
\* yet are served first: the handlers wait for SendResponse and
\* RunBackgroundTask.
Quiet == resp = NoResponse /\ task = NoTask

\* a worker is free for one more request
CanStart == Quiet /\ BagCardinality(inflight) < NumProcs

\* the requests in flight are no longer alone
Overlapped(B) ==
    LET marked(r) == [r EXCEPT !.seq = FALSE]
        T == {marked(r) : r \in BagToSet(B)}
    IN  [t \in T |-> CopiesIn(t, B) + CopiesIn([t EXCEPT !.seq = TRUE], B)]

Alone == inflight = EmptyBag

\* request r is suspended at an await
Suspend(r) == Overlapped(inflight) (+) SetToBag({[r EXCEPT !.seq = Alone]})

\* request r is taken up again
Rest(r) == inflight (-) SetToBag({r})

Respond(r, code) == [r EXCEPT !.pc = "done", !.code = code]

\* the response leaves; the background task of the request, if any, is next
SendResponse ==
    /\ resp # NoResponse
    /\ resp' = NoResponse
    /\ task' = resp.task
    /\ UNCHANGED <<records, certificates, inflight, year, mvars, dvars>>

\* ------------------------------------------------------------ anchor_document
AnchorInitialStatus_Queued == QUEUED

\* status=AnchorStatus.PENDING of the record anchor_document constructs
AnchorInitialStatus == PENDING

ExistingAnchors_CountsFailed(table, contract_id, document_hash) ==
    {i \in 1..Len(table) :
        /\ table[i].contract_id = contract_id
        /\ table[i].document_hash = document_hash
        /\ table[i].status \in {PENDING, CONFIRMED, FAILED}}

\* rows selected by the duplicate check
ExistingAnchors(table, contract_id, document_hash) ==
    {i \in 1..Len(table) :
        /\ table[i].contract_id = contract_id
        /\ table[i].document_hash = document_hash
        /\ table[i].status \in {PENDING, CONFIRMED}}

\* rows that exist or are about to be inserted
RowsClaimed ==
    Len(records) + BagCardinality(inflight)
                 - Cardinality({r \in BagToSet(inflight) : r.pc # "a_insert"})

\* from the call up to the await of db.flush()
AnchorDocumentCheck ==
    /\ CanStart
    /\ \E user \in Users, contract_id \in 1..(NumContracts + 1), document_hash \in HashValues :
          LET r == [NewRequest EXCEPT !.op = "anchor_document", !.user = user,
                                      !.contract_id = contract_id,
                                      !.document_hash = document_hash,
                                      !.seq = Alone]
              existing == ExistingAnchors(records, contract_id, document_hash)
              found == [r EXCEPT !.existing = Cardinality(existing)]
              answer(a) == /\ resp' = a
                           /\ inflight' = Overlapped(inflight)
          IN  IF contract_id \notin Contracts THEN answer(Respond(r, 404))
              ELSE IF ContractOwner(contract_id) # user THEN answer(Respond(r, 403))
              ELSE IF Cardinality(existing) > 1 THEN answer(Respond(found, 500))
              ELSE IF Cardinality(existing) = 1
                   THEN LET e == CHOOSE i \in existing : TRUE
                        IN  answer(Respond([found EXCEPT !.id = e,
                                                         !.status = records[e].status], 200))
              ELSE /\ RowsClaimed < MaxRecords
                   /\ inflight' = Suspend([found EXCEPT !.pc = "a_insert"])
                   /\ resp' = resp
    /\ UNCHANGED <<records, certificates, task, year, mvars, dvars>>

\* secrets.token_hex(32): a value no other record carries
FreshSalt(table) == Len(table) + 1

SaltedHash_Unsalted(document_hash, salt) == document_hash

\* hashlib.sha256((request.document_hash + salt).encode()).hexdigest()
SaltedHash(document_hash, salt) == Sha256Concat(document_hash, salt)

\* db.add(record); await db.flush(); add_task(process_anchor); response
AnchorDocumentInsert ==
    /\ Quiet
    /\ \E r \in BagToSet(inflight) :
          /\ r.pc = "a_insert"
          /\ LET salt == FreshSalt(records)
                 record == BlockchainRecord(r.contract_id, r.document_hash, salt,
                                            Null, Null, Null, AnchorInitialStatus)
                 salted_hash == SaltedHash(r.document_hash, salt)
                 flushed == FlushRecords(records, <<record>>)
                 new_id == Len(records) + 1
             IN  /\ records' = flushed.table
                 /\ inflight' = Rest(r)
                 /\ resp' = Respond([r EXCEPT
                                        !.added = <<record>>,
                                        !.task = [kind |-> "process_anchor", ref |-> new_id,
                                                  payload |-> salted_hash],
                                        !.id = new_id,
                                        !.status = record.status], 200)
    /\ UNCHANGED <<certificates, task, year, mvars, dvars>>

\* ------------------------------------------------------- background tasks
process_anchor_Confirms(table, record_id, salted_hash) ==
    [table EXCEPT ![record_id].status = CONFIRMED]

process_anchor_StoresTx(table, record_id, salted_hash) ==
    [table EXCEPT ![record_id].tx_hash = salted_hash]

process_anchor(table, record_id, salted_hash) == table

process_batch_anchor(table, batch_id, merkle_root) == table

RunBackgroundTask ==
    /\ resp = NoResponse
    /\ task # NoTask
    /\ records' = IF task.kind = "process_anchor"
                  THEN process_anchor(records, task.ref, task.payload)
                  ELSE process_batch_anchor(records, task.ref, task.payload)
    /\ task' = NoTask
    /\ UNCHANGED <<certificates, inflight, resp, year, mvars, dvars>>

\* ---------------------------------------------------------- get_anchor_status
\* the handler after its select found `record`: the authorization check
\* reads record.contract.user_id, which raises AttributeError (an unhandled
\* 500) when the record has no contract
get_anchor_status(record, user) ==
    IF record.contract_id = Null
    THEN [code |-> 500, view |-> <<>>]
    ELSE IF ContractOwner(record.contract_id) # user
    THEN [code |-> 403, view |-> <<>>]
    ELSE [code |-> 200,
          view |-> <<record.status, record.tx_hash, record.block_number,
                     IF record.block_number # Null THEN PlaceholderConfirmations ELSE 0,
                     record.merkle_root, record.merkle_proof>>]

GetAnchorStatus ==
    /\ CanStart
    /\ \E user \in Users, anchor_id \in 1..(Len(records) + 1) :
          LET r == [NewRequest EXCEPT !.op = "get_anchor_status", !.user = user,
                                      !.anchor_id = anchor_id, !.seq = Alone]
          IN  resp' = IF anchor_id > Len(records)
                      THEN Respond(r, 404)
                      ELSE LET out == get_anchor_status(records[anchor_id], user)
                           IN  Respond([r EXCEPT !.seen = records[anchor_id].status,
                                                 !.view = out.view], out.code)
    /\ inflight' = Overlapped(inflight)
    /\ UNCHANGED <<records, certificates, task, year, mvars, dvars>>

\* ------------------------------------- get_contract_anchors, get_blockchain_stats
\* the anchors of a contract, newest first (ids grow with created_at)
ContractAnchors(table, contract_id) ==
    LET ids == {i \in 1..Len(table) : table[i].contract_id = contract_id}
        RECURSIVE Desc(_)
        Desc(S) == IF S = {} THEN <<>>
                   ELSE LET m == CHOOSE x \in S : \A y \in S : y <= x
                        IN  <<m>> \o Desc(S \ {m})
    IN  Desc(ids)

GetContractAnchors ==
    /\ CanStart
    /\ \E user \in Users, contract_id \in 1..(NumContracts + 1) :
          LET r == [NewRequest EXCEPT !.op = "get_contract_anchors", !.user = user,
                                      !.contract_id = contract_id, !.seq = Alone]
          IN  resp' = IF contract_id \notin Contracts THEN Respond(r, 404)
                      ELSE IF ContractOwner(contract_id) # user THEN Respond(r, 403)
                      ELSE Respond([r EXCEPT !.view = ContractAnchors(records, contract_id)],
                                   200)
    /\ inflight' = Overlapped(inflight)
    /\ UNCHANGED <<records, certificates, task, year, mvars, dvars>>

\* the four counts over the contracts of the user; the handler's queries
\* only read, they are taken as one step
BlockchainStats(user) ==
    LET contract_ids == {c \in Contracts : ContractOwner(c) = user}
        mine == {i \in 1..Len(records) : records[i].contract_id \in contract_ids}
    IN  IF contract_ids = {}
        THEN <<0, 0, 0, 0>>
        ELSE <<Cardinality(mine),
               Cardinality({i \in mine : records[i].status = CONFIRMED}),
               Cardinality({i \in mine : records[i].status = PENDING}),
               Cardinality({c \in 1..Len(certificates) :
                               certificates[c].blockchain_record_id \in mine})>>

GetBlockchainStats ==
    /\ CanStart
    /\ \E user \in Users :
          resp' = Respond([NewRequest EXCEPT !.op = "get_blockchain_stats", !.user = user,
                                             !.view = BlockchainStats(user),
                                             !.seq = Alone], 200)
    /\ inflight' = Overlapped(inflight)
    /\ UNCHANGED <<records, certificates, task, year, mvars, dvars>>

\* ------------------------------------------------------------ verify_document
ConfirmedMatches_AnyStatus(table, document_hash) ==
    {i \in 1..Len(table) : table[i].document_hash = document_hash}

\* rows selected by the search for a matching anchor
ConfirmedMatches(table, document_hash) ==
    {i \in 1..Len(table) :
        /\ table[i].document_hash = document_hash
        /\ table[i].status = CONFIRMED}

\* the whole handler: one select, scalar_one_or_none(), the response; the
\* endpoint is public, no user is involved
VerifyDocument ==
    /\ CanStart
    /\ \E document_hash \in HashValues :
          LET r == [NewRequest EXCEPT !.op = "verify_document",
                                      !.document_hash = document_hash,
                                      !.seq = Alone]
              matches == ConfirmedMatches(records, document_hash)
              found == [r EXCEPT !.existing = Cardinality(matches)]
          IN  resp' = IF Cardinality(matches) > 1
                      THEN Respond(found, 500)      \* MultipleResultsFound
                      ELSE IF matches = {}
                      THEN Respond(found, 200)
                      ELSE LET record == CHOOSE i \in matches : TRUE
                           IN  Respond([found EXCEPT !.verified = TRUE,
                                                     !.id = record,
                                                     !.status = records[record].status],
                                       200)
    /\ inflight' = Overlapped(inflight)
    /\ UNCHANGED <<records, certificates, task, year, mvars, dvars>>

\* --------------------------------------------------- batch_anchor_documents
\* status=AnchorStatus.QUEUED of the records batch_anchor_documents constructs
BatchInitialStatus == QUEUED

\* the hash lists of the requests: every list up to MaxBatchLen, and one
\* list that is one hash longer than the handler accepts
BatchLists ==
    UNION {SeqsOfLen(HashValues, n) : n \in 0..MaxBatchLen}
        \cup {[i \in 1..(MaxBatchSize + 1) |-> 1]}

BatchSizeRejected_NoMinimum(hashes) == Len(hashes) > MaxBatchSize

\* the two size checks that raise HTTP 400
BatchSizeRejected(hashes) == Len(hashes) < MinBatchSize \/ Len(hashes) > MaxBatchSize

\* f"BATCH-{timestamp}-{secrets.token_hex(4)}"
FreshBatchId(table) == Len(table) + 1

BatchAnchorDocuments ==
    /\ CanStart
    /\ \E user \in Users, hashes \in BatchLists :
          LET r == [NewRequest EXCEPT !.op = "batch_anchor_documents", !.user = user,
                                      !.hashes = hashes, !.seq = Alone]
          IN  IF BatchSizeRejected(hashes)
              THEN /\ resp' = Respond(r, 400)
                   /\ UNCHANGED records
              ELSE LET built == compute_merkle_root(hashes)
                       batch_id == FreshBatchId(records)
                       new == [i \in 1..Len(hashes) |->
                                 BlockchainRecord(Null, hashes[i], Null, built.root,
                                                  get_merkle_proof(hashes[i], built.tree),
                                                  batch_id, BatchInitialStatus)]
                       flushed == FlushRecords(records, new)
                   IN  /\ records' = flushed.table
                       /\ resp' = IF flushed.ok
                                  THEN Respond([r EXCEPT
                                                  !.added = new,
                                                  !.task = [kind |-> "process_batch_anchor",
                                                            ref |-> batch_id,
                                                            payload |-> built.root],
                                                  !.id = batch_id,
                                                  !.status = "queued"], 200)
                                  ELSE Respond([r EXCEPT !.added = new], 500)
    /\ inflight' = Overlapped(inflight)
    /\ UNCHANGED <<certificates, task, year, mvars, dvars>>

\* ------------------------------------- get_certificate, download_certificate_pdf
CountCertificates_AllYears(table, y) == Len(table)

\* generate_certificate_number: certificates whose number is LIKE 'SC-{year}-%'
CountCertificates(table, y) ==
    Cardinality({i \in 1..Len(table) : table[i].certificate_number[1] = y})

generate_certificate_number(y, count) == <<y, count + 1>>

StatusAllowsCertificate_Unchecked(record) == TRUE

\* the check record.status != AnchorStatus.CONFIRMED
StatusAllowsCertificate(record) == record.status = CONFIRMED

CertificateForbidden_Unchecked(record, user) == FALSE

\* the authorization check: record.contract and
\* record.contract.user_id != current_user.id
CertificateForbidden(record, user) ==
    record.contract_id # Null /\ ContractOwner(record.contract_id) # user

\* select of the record with its contract and certificate, and the checks
\* that follow it
CertificateLoad(op) ==
    /\ CanStart
    /\ \E user \in Users, anchor_id \in 1..(Len(records) + 1) :
          LET r == [NewRequest EXCEPT !.op = op, !.user = user, !.anchor_id = anchor_id,
                                      !.seq = Alone]
              answer(a) == /\ resp' = a
                           /\ inflight' = Overlapped(inflight)
          IN  IF anchor_id > Len(records) THEN answer(Respond(r, 404))
              ELSE LET record == records[anchor_id]
                       seen == [r EXCEPT !.seen = record.status]
                       cert == CertificateOf(certificates, anchor_id)
                   IN  IF ~StatusAllowsCertificate(record) THEN answer(Respond(seen, 400))
                       ELSE IF CertificateForbidden(record, user)
                            THEN answer(Respond(seen, 403))
                       ELSE IF cert # Null
                            THEN answer(Respond(
                                     [seen EXCEPT !.id = cert,
                                         !.number = certificates[cert].certificate_number],
                                     200))
                       ELSE /\ inflight' = Suspend([seen EXCEPT !.pc = "c_count"])
                            /\ resp' = resp
    /\ UNCHANGED <<records, certificates, task, year, mvars, dvars>>

\* the count query of generate_certificate_number
CertificateCount(op) ==
    /\ Quiet
    /\ \E r \in BagToSet(inflight) :
          /\ r.pc = "c_count"
          /\ r.op = op
          /\ inflight' = Rest(r) (+) SetToBag({[r EXCEPT !.pc = "c_insert", !.cyear = year,
                                    !.count = CountCertificates(certificates, year)]})
    /\ UNCHANGED <<records, certificates, resp, task, year, mvars, dvars>>

\* db.add(certificate); await db.flush(); response
CertificateInsert(op) ==
    /\ Quiet
    /\ \E r \in BagToSet(inflight) :
          /\ r.pc = "c_insert"
          /\ r.op = op
          /\ LET cert_number == generate_certificate_number(r.cyear, r.count)
                 flushed == FlushCertificate(certificates,
                                             Certificate(r.anchor_id, cert_number))
             IN  /\ certificates' = flushed.table
                 /\ inflight' = Rest(r)
                 /\ resp' = IF flushed.ok
                            THEN Respond([r EXCEPT !.id = Len(flushed.table),
                                                   !.number = cert_number,
                                                   !.created = TRUE], 200)
                            ELSE Respond(r, 500)
    /\ UNCHANGED <<records, task, year, mvars, dvars>>

GetCertificateLoad == CertificateLoad("get_certificate")
GetCertificateCount == CertificateCount("get_certificate")
GetCertificateInsert == CertificateInsert("get_certificate")

DownloadCertificatePdfLoad == CertificateLoad("download_certificate_pdf")
DownloadCertificatePdfCount == CertificateCount("download_certificate_pdf")
DownloadCertificatePdfInsert == CertificateInsert("download_certificate_pdf")

\* ------------------------------------------------- the ledger collaborator
\* The submission client reports on a single anchor: confirmed with its
\* transaction, or failed with a message.
LedgerConfirm ==
    /\ resp = NoResponse
    /\ \E r \in 1..Len(records) :
          /\ records[r].status = PENDING
          /\ records[r].batch_id = Null
          /\ records' = [records EXCEPT ![r].status = CONFIRMED, ![r].tx_hash = r,
                                        ![r].block_number = 1, ![r].confirmed_at = 1]
    /\ UNCHANGED <<certificates, inflight, resp, task, year, mvars, dvars>>

LedgerFail ==
    /\ resp = NoResponse
    /\ \E r \in 1..Len(records) :
          /\ records[r].status = PENDING
          /\ records[r].batch_id = Null
          /\ records' = [records EXCEPT ![r].status = FAILED, ![r].error_message = 1]
    /\ UNCHANGED <<certificates, inflight, resp, task, year, mvars, dvars>>

\* the calendar year changes
TickYear ==
    /\ Quiet
    /\ year < MaxYear
    /\ year' = year + 1
    /\ UNCHANGED <<records, certificates, inflight, resp, task, mvars, dvars>>

\* -------------------------------------------------------- MockDidBaasClient
Dids == 1..NumDids

\* settings.SAFECON_ISSUER_DID or "did:sw:safecon:mock-issuer"
MockIssuer == 0

\* f"urn:uuid:{uuid.uuid4()}": an id no credential carries yet
FreshCredentialId(store) == Cardinality(DOMAIN store) + 1

\* the credential issue_w3c_credential builds; expirationDate is Null when
\* expires_at is not given
issue_w3c_credential(store, issuer_did, subject_did, schema_id, claims, expires_at) ==
    LET credential_id == FreshCredentialId(store)
        credential == [id |-> credential_id,
                       type |-> <<"VerifiableCredential", schema_id>>,
                       issuer |-> issuer_did,
                       credentialSubject |-> [id |-> subject_did, claims |-> claims],
                       expirationDate |-> expires_at]
    IN  [store |-> (credential_id :> credential) @@ store, result |-> credential]

get_credential_MockForAnyId(store, credential_id) ==
    [status |-> 200, error |-> "none",
     value |-> IF credential_id \in DOMAIN store THEN store[credential_id]
               ELSE [id |-> credential_id]]

\* the stored credential, or DidBaasError("Credential not found", status_code=404)
get_credential(store, credential_id) ==
    IF credential_id \in DOMAIN store
    THEN [status |-> 200, error |-> "none", value |-> store[credential_id]]
    ELSE [status |-> 404, error |-> "DidBaasError", value |-> Null]

MockIssueW3cCredential ==
    /\ Cardinality(DOMAIN d_credentials) < MaxCredentials
    /\ \E issuer_did \in Dids, subject_did \in Dids, expires_at \in {Null, 1} :
          LET out == issue_w3c_credential(d_credentials, issuer_did, subject_did,
                                          "identity-v1", "claims", expires_at)
          IN  /\ d_credentials' = out.store
              /\ d_returned' = d_returned \cup {out.result}
              /\ d_out' = [op |-> "issue_w3c_credential", id |-> out.result.id,
                           status |-> 200, error |-> "none", value |-> out.result]
    /\ UNCHANGED <<mvars, avars>>

\* issue_signature_credential: the claims of a signature, then
\* issue_w3c_credential with the mock issuer
MockIssueSignatureCredential ==
    /\ Cardinality(DOMAIN d_credentials) < MaxCredentials
    /\ \E signer_did \in Dids :
          LET out == issue_w3c_credential(d_credentials, MockIssuer, signer_did,
                                          "contract-signature-v1", "signature", Null)
          IN  /\ d_credentials' = out.store
              /\ d_returned' = d_returned \cup {out.result}
              /\ d_out' = [op |-> "issue_signature_credential", id |-> out.result.id,
                           status |-> 200, error |-> "none", value |-> out.result]
    /\ UNCHANGED <<mvars, avars>>

MockGetCredential ==
    /\ \E credential_id \in 1..(MaxCredentials + 1) :
          LET out == get_credential(d_credentials, credential_id)
          IN  d_out' = [op |-> "get_credential", id |-> credential_id,
                        status |-> out.status, error |-> out.error, value |-> out.value]
    /\ UNCHANGED <<d_credentials, d_returned, mvars, avars>>

\* revoke_credential only logs and reports success
MockRevokeCredential ==
    /\ \E credential_id \in 1..(MaxCredentials + 1) :
          d_out' = [op |-> "revoke_credential", id |-> credential_id,
                    status |-> 200, error |-> "none", value |-> Null]
    /\ UNCHANGED <<d_credentials, d_returned, mvars, avars>>

\* MockDidBaasClient(): no credential stored, no call made
InitMock ==
    /\ d_credentials = <<>>
    /\ d_returned = {}
    /\ d_out = [op |-> "none", id |-> Null, status |-> 0, error |-> "none", value |-> Null]

NextMock ==
    \/ MockIssueW3cCredential
    \/ MockIssueSignatureCredential
    \/ MockGetCredential
    \/ MockRevokeCredential

\* ---------------------------------------------------------- specification
InitAnchor ==
    /\ records = <<>>
    /\ certificates = <<>>
    /\ inflight = EmptyBag
    /\ resp = NoResponse
    /\ task = NoTask
    /\ year = 1

MerkleOff ==
    /\ m_pc = "off"
    /\ m_hashes = <<>>
    /\ m_root = EmptyString
    /\ m_tree = <<>>
    /\ m_leaf = EmptyString
    /\ m_proof = <<>>
    /\ m_ok = FALSE
    /\ m_tamper = "none"

Init == InitAnchor /\ MerkleOff /\ InitMock

SpecMock == Init /\ [][NextMock]_vars

\* The anchoring code on its own, without the ledger collaborator's steps:
\* no code hands a record to the collaborator (process_anchor and
\* process_batch_anchor are empty), so the collaborator is never asked and
\* has nothing to answer. A request that has started is taken to its end,
\* its response is sent and its background task is run.
NextLive ==
    \/ AnchorDocumentCheck
    \/ AnchorDocumentInsert
    \/ BatchAnchorDocuments
    \/ SendResponse
    \/ RunBackgroundTask

SpecLive ==
    /\ Init
    /\ [][NextLive]_vars
    /\ WF_vars(AnchorDocumentInsert)
    /\ WF_vars(SendResponse)
    /\ WF_vars(RunBackgroundTask)

Next ==
    \/ AnchorDocumentCheck
    \/ AnchorDocumentInsert
    \/ BatchAnchorDocuments
    \/ VerifyDocument
    \/ GetAnchorStatus
    \/ GetContractAnchors
    \/ GetBlockchainStats
    \/ GetCertificateLoad
    \/ GetCertificateCount
    \/ GetCertificateInsert
    \/ DownloadCertificatePdfLoad
    \/ DownloadCertificatePdfCount
    \/ DownloadCertificatePdfInsert
    \/ SendResponse
    \/ RunBackgroundTask
    \/ LedgerConfirm
    \/ LedgerFail
    \/ TickYear

Spec == Init /\ [][Next]_vars

\* ------------------------------------------------------ Merkle driver steps
LeafLists == UNION {SeqsOfLen(HashValues, n) : n \in 0..MaxLeaves}

InitMerkle ==
    /\ InitAnchor
    /\ InitMock
    /\ m_pc = "input"
    /\ m_hashes \in LeafLists
    /\ m_root = EmptyString
    /\ m_tree = <<>>
    /\ m_leaf = EmptyString
    /\ m_proof = <<>>
    /\ m_ok = FALSE
    /\ m_tamper = "none"

MerkleBuild ==
    /\ m_pc = "input"
    /\ LET res == compute_merkle_root(m_hashes)
       IN  /\ m_root' = res.root
           /\ m_tree' = res.tree
    /\ m_pc' = "built"
    /\ UNCHANGED <<m_hashes, m_leaf, m_proof, m_ok, m_tamper, avars, dvars>>

MerkleProve ==
    /\ m_pc = "built"
    /\ \E leaf \in HashValues :
          /\ m_leaf' = leaf
          /\ m_proof' = get_merkle_proof(leaf, m_tree)
    /\ m_pc' = "proved"
    /\ UNCHANGED <<m_hashes, m_root, m_tree, m_ok, m_tamper, avars, dvars>>

\* the values a tampered v is replaced by
TamperValues(v) == ({EmptyString, v + 1} \cup HashValues) \ {v}

\* between proof extraction and verification one value is replaced by a
\* different one: the leaf, one sibling of the proof, or the claimed root
MerkleTamper ==
    /\ m_pc = "proved"
    /\ m_leaf \in Range(m_hashes)
    /\ \/ \E x \in TamperValues(m_leaf) :
             /\ m_leaf' = x
             /\ m_tamper' = "leaf"
             /\ UNCHANGED <<m_proof, m_root>>
       \/ \E k \in 1..Len(m_proof) :
          \E x \in TamperValues(m_proof[k].hash) :
             /\ m_proof' = [m_proof EXCEPT ![k].hash = x]
             /\ m_tamper' = "sibling"
             /\ UNCHANGED <<m_leaf, m_root>>
       \/ \E x \in TamperValues(m_root) :
             /\ m_root' = x
             /\ m_tamper' = "root"
             /\ UNCHANGED <<m_leaf, m_proof>>
    /\ m_pc' = "tampered"
    /\ UNCHANGED <<m_hashes, m_tree, m_ok, avars, dvars>>

MerkleVerify ==
    /\ m_pc \in {"proved", "tampered"}
    /\ m_ok' = VerifyProof(m_leaf, m_proof, m_root)
    /\ m_pc' = IF m_pc = "proved" THEN "verified" ELSE "tamper_checked"
    /\ UNCHANGED <<m_hashes, m_root, m_tree, m_leaf, m_proof, m_tamper, avars, dvars>>

NextMerkle == MerkleBuild \/ MerkleProve \/ MerkleTamper \/ MerkleVerify

SpecMerkle == InitMerkle /\ [][NextMerkle]_vars

\* ------------------------------------------------------------------ claims

\* C1: round trip - for every non-empty list of leaf hashes and every leaf
\* in it, the proof of get_merkle_proof recomputes the root of the same
\* compute_merkle_root call.
C1_RoundTrip ==
    (m_pc = "verified" /\ m_hashes # <<>> /\ m_leaf \in Range(m_hashes)) => m_ok

C1_Witness ==
    /\ m_pc = "verified"
    /\ Len(m_hashes) = 5
    /\ m_leaf = m_hashes[5]
    /\ m_hashes[5] # m_hashes[4]
    /\ Len(m_proof) = 3
    /\ m_ok

CertOps == {"get_certificate", "download_certificate_pdf"}

\* C2: at most one record with status PENDING or CONFIRMED exists for a
\* (contract_id, document_hash) pair, in every reachable state and under
\* every interleaving of anchor_document requests.
C2_OneActivePerPair ==
    \A c \in Contracts, h \in HashValues :
        Cardinality(ExistingAnchors(records, c, h)) <= 1

\* C3: an anchor_document call that runs alone for a pair that already has
\* a PENDING or CONFIRMED record answers with the id of such a record and
\* adds no record.
C3_SequentialIdempotent ==
    (resp.op = "anchor_document" /\ resp.seq /\ resp.existing >= 1)
    => /\ resp.code = 200
       /\ resp.id \in ExistingAnchors(records, resp.contract_id, resp.document_hash)
       /\ resp.added = <<>>

\* C4: a certificate request on an anchor that is not CONFIRMED is answered
\* with the precondition error 400 and creates no certificate; every
\* persisted certificate references a CONFIRMED record.
C4_CertificateNeedsConfirmed ==
    /\ \A i \in 1..Len(certificates) :
           /\ certificates[i].blockchain_record_id \in 1..Len(records)
           /\ records[certificates[i].blockchain_record_id].status = CONFIRMED
    /\ (resp.op \in CertOps /\ resp.seen \notin {"none", CONFIRMED})
       => (resp.code = 400 /\ ~resp.created)
    /\ \A r \in BagToSet(inflight) : r.op \in CertOps => r.seen = CONFIRMED

C4_Witness ==
    /\ resp.op \in CertOps
    /\ resp.seen = PENDING
    /\ resp.code = 400
    /\ Len(certificates) = 1

\* C5: no two persisted certificates carry the same certificate_number.
C5_UniqueCertificateNumber ==
    \A i, j \in 1..Len(certificates) :
        i # j => certificates[i].certificate_number # certificates[j].certificate_number

\* two issuances computed the same number: one is persisted, the other one
\* was refused
C5_Witness ==
    /\ resp.op \in CertOps
    /\ resp.code = 500
    /\ \E i \in 1..Len(certificates) :
           /\ certificates[i].certificate_number
                  = generate_certificate_number(resp.cyear, resp.count)
           /\ certificates[i].blockchain_record_id # resp.anchor_id

\* C6: certificate number assignment is serialized - two issuances for
\* distinct CONFIRMED anchors in one year never hold the same count, and an
\* issuance for an anchor that has no certificate completes successfully.
C6_SerializedNumbering ==
    /\ \A p, q \in BagToSet(inflight) :
           (/\ p.pc = "c_insert" /\ q.pc = "c_insert"
            /\ p.anchor_id # q.anchor_id
            /\ p.cyear = q.cyear)
           => p.count # q.count
    /\ (resp.op \in CertOps /\ resp.code = 500 /\ resp.seen = CONFIRMED)
       => CertificateOf(certificates, resp.anchor_id) # Null

\* C7: certificate requests on a CONFIRMED anchor that run one after the
\* other all answer with the number of the one certificate of that anchor:
\* a request that ran alone succeeds with the number of the anchor's
\* certificate, an anchor never has two certificates, and a persisted
\* certificate never changes.
C7_AloneReturnsTheCertificate ==
    /\ (resp.op \in CertOps /\ resp.seq /\ resp.seen = CONFIRMED /\ resp.code # 403)
       => /\ resp.code = 200
          /\ CertificateOf(certificates, resp.anchor_id) # Null
          /\ resp.number
               = certificates[CertificateOf(certificates, resp.anchor_id)].certificate_number
    /\ \A i, j \in 1..Len(certificates) :
           i # j => certificates[i].blockchain_record_id # certificates[j].blockchain_record_id

C7_CertificatesKept ==
    /\ Len(certificates') >= Len(certificates)
    /\ \A i \in 1..Len(certificates) : certificates'[i] = certificates[i]

C7_StableCertificate == [](C7_AloneReturnsTheCertificate) /\ [][C7_CertificatesKept]_vars

\* a later call, here the PDF download, answers with the certificate an
\* earlier call created
C7_Witness ==
    /\ resp.op = "download_certificate_pdf"
    /\ resp.seq
    /\ resp.code = 200
    /\ ~resp.created
    /\ resp.number = <<1, 1>>
    /\ year = 2

\* C8: once a record is CONFIRMED or FAILED no step changes its status.
C8_TerminalKept ==
    /\ Len(records') >= Len(records)
    /\ \A r \in 1..Len(records) :
           records[r].status \in {CONFIRMED, FAILED} => records'[r].status = records[r].status

C8_TerminalAbsorbing == [][C8_TerminalKept]_vars

\* a FAILED record whose background task has run, next to a CONFIRMED record
\* a certificate request was served for
C8_Witness ==
    /\ task = NoTask
    /\ \E r \in 1..Len(records) : records[r].status = FAILED
    /\ \E r \in 1..Len(records) :
           /\ records[r].status = CONFIRMED
           /\ CertificateOf(certificates, r) # Null

C12_VerifiedOnlyConfirmed ==
    resp.op = "verify_document"
    => /\ resp.verified
          => /\ resp.code = 200
             /\ resp.id \in 1..Len(records)
             /\ records[resp.id].document_hash = resp.document_hash
             /\ records[resp.id].status = CONFIRMED
       /\ (\A i \in 1..Len(records) :
               records[i].document_hash = resp.document_hash
               => records[i].status \in {PENDING, QUEUED, PROCESSING, FAILED})
          => (resp.code = 200 /\ ~resp.verified /\ resp.id = Null)

\* verified: true with the second record, CONFIRMED, while the first record
\* of the same hash is FAILED
C12_Witness ==
    /\ resp.op = "verify_document"
    /\ resp.verified
    /\ resp.id = 2
    /\ records[1].document_hash = resp.document_hash
    /\ records[1].status = FAILED

\* C13: when several CONFIRMED records share the requested document_hash,
\* verify_document answers verified: true with the first of them; it does
\* not fail.
C13_FirstOfSeveral ==
    LET matches == ConfirmedMatches(records, resp.document_hash)
    IN  (resp.op = "verify_document" /\ Cardinality(matches) > 1)
        => /\ resp.code = 200
           /\ resp.verified
           /\ resp.id \in matches
           /\ \A i \in matches : resp.id <= i

\* C14: batch_anchor_documents answers every list of fewer than 2 or more
\* than 100 hashes (sizes 0, 1 and 101 among them) with the precondition
\* error 400, and such a call creates no record and schedules no background
\* task.
C14_RejectedStep ==
    (/\ resp' # resp
     /\ resp'.op = "batch_anchor_documents"
     /\ (Len(resp'.hashes) < 2 \/ Len(resp'.hashes) > 100))
    => /\ resp'.code = 400
       /\ resp'.added = <<>>
       /\ resp'.task = NoTask
       /\ records' = records

C14_BatchBounds == [][C14_RejectedStep]_vars

\* a list of 101 hashes refused while a record exists
C14_Witness ==
    /\ resp.op = "batch_anchor_documents"
    /\ Len(resp.hashes) = 101
    /\ resp.code = 400
    /\ resp.task = NoTask
    /\ Len(records) = 1

\* C15: batch_anchor_documents with 2 to 100 hashes succeeds and persists
\* exactly one record per input hash, all with the batch_id of the response,
\* the Merkle root of the input list and no contract; the response carries
\* that batch_id and status queued.
C15_BatchPersisted ==
    (resp.op = "batch_anchor_documents" /\ Len(resp.hashes) \in 2..100)
    => LET members == {i \in 1..Len(records) : records[i].batch_id = resp.id}
       IN  /\ resp.code = 200
           /\ resp.id # Null
           /\ Cardinality(members) = Len(resp.hashes)
           /\ \A i \in members :
                  /\ records[i].merkle_root = compute_merkle_root(resp.hashes).root
                  /\ records[i].contract_id = Null
                  /\ records[i].document_hash \in Range(resp.hashes)

\* C16: for a single-leaf input [h] compute_merkle_root returns h itself as
\* the root, and get_merkle_proof returns the empty proof for h.
C16_SingleLeaf ==
    Len(m_hashes) = 1
    => /\ m_pc \in {"built", "proved", "verified"} => m_root = m_hashes[1]
       /\ (m_pc \in {"proved", "verified"} /\ m_leaf = m_hashes[1]) => m_proof = <<>>

\* C17: compute_merkle_root rejects the empty list of leaf hashes; the call
\* never completes with a root value for it.
C17_EmptyRejected == m_hashes = <<>> => m_pc = "input"

\* the reference algorithm of C18: while a level has more than one node, pad
\* it when odd by duplicating its last node, then hash each adjacent pair
\* left to right; every level is kept as padded
RECURSIVE C18_RefLevels(_)
C18_RefLevels(level) ==
    IF Len(level) > 1
    THEN LET padded == IF Len(level) % 2 = 1
                       THEN Append(level, level[Len(level)])
                       ELSE level
             parents == [i \in 1..(Len(padded) \div 2) |->
                            Sha256Concat(padded[2 * i - 1], padded[2 * i])]
         IN  <<padded>> \o C18_RefLevels(parents)
    ELSE <<level>>

\* C18: for every input of two or more leaves compute_merkle_root returns
\* the levels and the root of the reference algorithm; for three leaves
\* [a, b, c] the root is H(H(a||b) || H(c||c)); building again from the
\* same ordered input gives the same root.
C18_ReferenceTree ==
    (m_pc \in {"built", "proved", "verified"} /\ Len(m_hashes) >= 2)
    => LET ref == C18_RefLevels(m_hashes)
       IN  /\ m_tree = ref
           /\ Len(ref[Len(ref)]) = 1
           /\ m_root = ref[Len(ref)][1]
           /\ Len(m_hashes) = 3
              => m_root = Sha256Concat(Sha256Concat(m_hashes[1], m_hashes[2]),
                                       Sha256Concat(m_hashes[3], m_hashes[3]))
           /\ compute_merkle_root(m_hashes).root = m_root

\* three leaves, padded to four before pairing
C18_Witness ==
    /\ m_pc = "built"
    /\ Len(m_hashes) = 3
    /\ m_hashes[1] # m_hashes[2]
    /\ Len(m_tree[1]) = 4
    /\ m_root = Sha256Concat(Sha256Concat(m_hashes[1], m_hashes[2]),
                             Sha256Concat(m_hashes[3], m_hashes[3]))

\* C19: tamper sensitivity - for a leaf of the input, its proof and the root
\* of one compute_merkle_root call, replacing the leaf, one sibling of the
\* proof or the claimed root by a different value makes the verification
\* return false.
C19_TamperDetected ==
    m_pc = "tamper_checked"
    => LET built == compute_merkle_root(m_hashes)
       IN  /\ ~m_ok
           /\ m_tamper = "leaf"
              => /\ m_root = built.root
                 /\ \E l \in Range(m_hashes) :
                        l # m_leaf /\ m_proof = get_merkle_proof(l, built.tree)
           /\ m_tamper = "sibling"
              => /\ m_root = built.root
                 /\ LET proof == get_merkle_proof(m_leaf, built.tree)
                    IN  /\ Len(m_proof) = Len(proof)
                        /\ Cardinality({k \in 1..Len(proof) : m_proof[k] # proof[k]}) = 1
           /\ m_tamper = "root"
              => /\ m_root # built.root
                 /\ m_proof = get_merkle_proof(m_leaf, built.tree)

\* one sibling of a three-step proof replaced, and the verification refused
C19_Witness ==
    /\ m_pc = "tamper_checked"
    /\ m_tamper = "sibling"
    /\ Len(m_proof) = 3
    /\ m_proof[3].hash = EmptyString
    /\ ~m_ok

\* C20: a FAILED record is never retried or reused - an anchor_document
\* call for a (contract_id, document_hash) whose other records are all
\* FAILED creates a new PENDING record with a new id, and no step changes a
\* FAILED record.
C20_NewRecordAfterFailed ==
    LET pair == {i \in 1..Len(records) :
                    /\ records[i].contract_id = resp.contract_id
                    /\ records[i].document_hash = resp.document_hash}
        failed == {i \in pair : records[i].status = FAILED}
        \* the records the call found: all but the one it may have added
        before == pair \ (IF resp.added # <<>> THEN {resp.id} ELSE {})
    IN  (/\ resp.op = "anchor_document"
         /\ resp.code \notin {403, 404}
         /\ before # {}
         /\ before \subseteq failed)
        => /\ resp.code = 200
           /\ resp.added # <<>>
           /\ resp.id = Len(records)
           /\ resp.id \notin before
           /\ resp.status = PENDING
           /\ records[resp.id].status = PENDING

C20_FailedKept ==
    /\ Len(records') >= Len(records)
    /\ \A r \in 1..Len(records) : records[r].status = FAILED => records'[r] = records[r]

C20_FailedNotReused == [](C20_NewRecordAfterFailed) /\ [][C20_FailedKept]_vars

\* the second record of a pair, PENDING, created while the first is FAILED
C20_Witness ==
    /\ resp.op = "anchor_document"
    /\ resp.added # <<>>
    /\ resp.id = 2
    /\ records[2].status = PENDING
    /\ records[1].status = FAILED
    /\ records[1].document_hash = resp.document_hash
    /\ records[1].contract_id = resp.contract_id

\* C21: in a serial execution the certificate issued when n certificates of
\* the current year exist gets sequence n + 1 of that year, so the sequences
\* of a year increase in issue order by one from 1, and the first
\* certificate of a new year gets sequence 1 whatever earlier years hold.
C21_SequencePerYear ==
    /\ (resp.op \in CertOps /\ resp.seq /\ resp.created)
       => /\ resp.number = <<resp.cyear, resp.count + 1>>
          /\ certificates[Len(certificates)].certificate_number = resp.number
          /\ resp.count = Cardinality({i \in 1..(Len(certificates) - 1) :
                                 certificates[i].certificate_number[1] = resp.cyear})
    /\ \A j \in 1..Len(certificates) :
           certificates[j].certificate_number[2]
               = Cardinality({i \in 1..j : certificates[i].certificate_number[1]
                                               = certificates[j].certificate_number[1]})

\* the first certificate of year 2, issued alone after one of year 1
C21_Witness ==
    /\ resp.op \in CertOps
    /\ resp.seq
    /\ resp.created
    /\ resp.number = <<2, 1>>
    /\ Len(certificates) = 2
    /\ certificates[1].certificate_number = <<1, 1>>

C24_HandlerStepKeepsRecords ==
    (resp' # resp \/ inflight' # inflight)
    => /\ Len(records') >= Len(records)
       /\ \A r \in 1..Len(records) : records'[r] = records[r]

C24_HandlersOnlyRead == [][C24_HandlerStepKeepsRecords]_vars

\* a duplicate anchor_document call answered with a CONFIRMED record that
\* has a certificate
C24_Witness ==
    /\ resp.op = "anchor_document"
    /\ resp.existing = 1
    /\ resp.added = <<>>
    /\ resp.status = CONFIRMED
    /\ records[resp.id].tx_hash # Null
    /\ CertificateOf(certificates, resp.id) # Null
    /\ Len(records) = 2

\* C25: for every single anchor the payload handed to process_anchor is
\* H(document_hash || salt) with the salt stored on that record, and it is
\* never the document_hash of the record itself.
C25_SaltedPayload ==
    \A t \in {task, resp.task} :
        t.kind = "process_anchor"
        => /\ t.ref \in 1..Len(records)
           /\ records[t.ref].salt # Null
           /\ t.payload = Sha256Concat(records[t.ref].document_hash, records[t.ref].salt)
           /\ t.payload # records[t.ref].document_hash

\* the task of the second anchor, whose salt differs from the first one's
C25_Witness ==
    /\ task.kind = "process_anchor"
    /\ task.ref = 2
    /\ records[2].salt # records[1].salt
    /\ records[2].document_hash = records[1].document_hash
    /\ task.payload = Sha256Concat(records[2].document_hash, records[2].salt)

\* C26: in the mock DID client get_credential(id) returns a credential
\* exactly when issue_w3c_credential returned that id before on the same
\* client, and then it returns the issued credential; for an id never
\* issued it fails with DidBaasError of status 404, and it leaves the store
\* unchanged.
C26_AnswersIssuedOnly ==
    d_out.op = "get_credential"
    => LET issued == {c \in d_returned : c.id = d_out.id}
       IN  IF issued # {}
           THEN /\ d_out.status = 200
                /\ d_out.value \in issued
           ELSE /\ d_out.status = 404
                /\ d_out.error = "DidBaasError"
                /\ d_out.value = Null

C26_StoreKept ==
    d_out'.op = "get_credential" /\ d_out' # d_out => d_credentials' = d_credentials

C26_GetCredential == [](C26_AnswersIssuedOnly) /\ [][C26_StoreKept]_vars

\* the first of two issued credentials read back, and an unknown id refused
C26_Witness ==
    /\ d_out.op = "get_credential"
    /\ d_out.id = 1
    /\ d_out.status = 200
    /\ d_out.value.type[2] = "contract-signature-v1"
    /\ Cardinality(d_returned) = 2

\* C27: for every non-empty input every level of the tree except the root
\* level has an even number of nodes and the root level has one node, so
\* the sibling index get_merkle_proof computes lies inside the level, no
\* level is skipped, and the proof of a leaf has exactly one entry per
\* non-root level.
C27_EvenLevels ==
    (m_pc \in {"built", "proved", "verified"} /\ m_hashes # <<>>)
    => /\ \A l \in 1..(Len(m_tree) - 1) : Len(m_tree[l]) % 2 = 0
       /\ Len(m_tree[Len(m_tree)]) = 1
       /\ (m_pc \in {"proved", "verified"} /\ m_leaf \in Range(m_hashes))
          => /\ Len(m_proof) = Len(m_tree) - 1
             /\ \A l \in 1..Len(m_proof) :
                    \E k \in 1..Len(m_tree[l]) : m_tree[l][k] = m_proof[l].hash

\* five leaves, padded to six: the sibling of the last leaf is its padded
\* duplicate, and its proof has one entry for each of the three levels
\* below the root
C27_Witness ==
    /\ m_pc = "proved"
    /\ Len(m_hashes) = 5
    /\ Len(m_tree[1]) = 6
    /\ m_leaf = m_hashes[5]
    /\ \A k \in 1..4 : m_hashes[k] # m_leaf
    /\ m_proof[1] = [hash |-> m_leaf, position |-> "right"]
    /\ Len(m_tree) = 4
    /\ Len(m_proof) = 3

\* C28: under any interleaving of get_certificate and PDF download requests
\* for one CONFIRMED anchor at most one certificate exists for the anchor,
\* and every such request by the owner returns that certificate without
\* failing.
C28_ConcurrentSameAnchor ==
    /\ \A i, j \in 1..Len(certificates) :
           i # j => certificates[i].blockchain_record_id # certificates[j].blockchain_record_id
    /\ (/\ resp.op \in CertOps
        /\ resp.seen = CONFIRMED
        /\ resp.code # 403
        /\ CertificateOf(certificates, resp.anchor_id) # Null)
       => /\ resp.code = 200
          /\ resp.number
               = certificates[CertificateOf(certificates, resp.anchor_id)].certificate_number

\* request r is about a record with a contract that r's user does not own
C30_NonOwner(r) ==
    /\ records[r.anchor_id].contract_id # Null
    /\ ContractOwner(records[r.anchor_id].contract_id) # r.user

\* C30 as stated: for an anchor with a contract, a certificate request by a
\* user who does not own the contract ends in the authorization error 403,
\* gets no certificate and creates none.
C30_NonOwnerForbidden ==
    /\ (/\ resp.op \in CertOps
        /\ resp.anchor_id \in 1..Len(records)
        /\ C30_NonOwner(resp))
       => /\ resp.code = 403
          /\ ~resp.created
          /\ resp.number = <<Null, Null>>
    /\ \A r \in BagToSet(inflight) :
           r.op \in CertOps => ~C30_NonOwner(r)

\* C30 as amended: such a request never gets or creates a certificate; it
\* ends in the authorization error 403 when the anchor is CONFIRMED and in
\* the precondition error 400 when it is not, because the handlers check
\* the status before the owner.
C30_NonOwnerRefused ==
    /\ (/\ resp.op \in CertOps
        /\ resp.anchor_id \in 1..Len(records)
        /\ C30_NonOwner(resp))
       => /\ resp.code = IF resp.seen = CONFIRMED THEN 403 ELSE 400
          /\ ~resp.created
          /\ resp.number = <<Null, Null>>
          /\ resp.id = Null
    /\ \A r \in BagToSet(inflight) :
           r.op \in CertOps => ~C30_NonOwner(r)

\* a non-owner refused with 403 on a CONFIRMED anchor that has a certificate
C30_Witness ==
    /\ resp.op \in CertOps
    /\ resp.code = 403
    /\ resp.seen = CONFIRMED
    /\ ContractOwner(records[resp.anchor_id].contract_id) # resp.user
    /\ CertificateOf(certificates, resp.anchor_id) # Null
    /\ Len(certificates) = 1

\* C29: liveness - with the requests, responses and background tasks
\* scheduled fairly, every record that is created eventually reaches
\* CONFIRMED or FAILED; no record stays PENDING or QUEUED forever.
C29_EventuallyTerminal ==
    \A r \in 1..MaxRecords :
        [](Len(records) >= r =>
              <>(Len(records) >= r /\ records[r].status \in {CONFIRMED, FAILED}))

====
